---------------------------- MODULE Spec2Model ----------------------------
(***************************************************************************)
(* A model of the generic DataTable component of the mova-client           *)
(* dashboard, in its two revisions:                                        *)
(*   rev "A"  src/src/components/data-table.tsx                            *)
(*   rev "B"  src/unnamed/part_004 (header: src/components/data-table.tsx) *)
(* and of the pages that feed it.  JavaScript strings are sequences of     *)
(* one-character strings, JavaScript values are tagged records, and the    *)
(* table library (@tanstack/react-table) is modelled by the row models     *)
(* the component asks it for: core, pagination and selected rows.          *)
(***************************************************************************)
EXTENDS Integers, Sequences, FiniteSets, TLC

(***************************************************************************)
(* Bounds of the model.                                                    *)
(***************************************************************************)
MaxRows == 3          \* longest data prop handed to the table
MaxQueryLen == 3      \* longest search text typed
MaxDeleteCalls == 1   \* onDeleteSelected invocations counted
MaxServerRows == 57   \* largest server-side total of the Orders page
MaxHeaderClicks == 3  \* clicks on column headers counted
MaxVehicles == 1      \* largest hiace or coaster count typed
MaxQuoteSeq == 4      \* runs of a dialog's quoting effect counted

(***************************************************************************)
(* JavaScript strings.                                                     *)
(***************************************************************************)
UpperToLower ==
  [c \in {"A", "B", "C", "D", "L", "O"} |->
     CASE c = "A" -> "a" [] c = "B" -> "b" [] c = "C" -> "c"
       [] c = "D" -> "d" [] c = "L" -> "l" [] c = "O" -> "o"]

\* String.prototype.toLowerCase, one character
LowerChar(c) == IF c \in DOMAIN UpperToLower THEN UpperToLower[c] ELSE c

\* String.prototype.toLowerCase
ToLowerCase(s) == [i \in 1..Len(s) |-> LowerChar(s[i])]

IsWhiteSpace(c) == c = " "

\* String.prototype.trim: drops the white space at both ends
Trim(s) ==
  LET keep == {i \in 1..Len(s) : ~IsWhiteSpace(s[i])}
      Min(S) == CHOOSE x \in S : \A y \in S : x <= y
      Max(S) == CHOOSE x \in S : \A y \in S : x >= y
  IN  IF keep = {} THEN <<>> ELSE SubSeq(s, Min(keep), Max(keep))

\* String.prototype.includes
Includes(s, q) ==
  \E i \in 1..(Len(s) - Len(q) + 1) : SubSeq(s, i, i + Len(q) - 1) = q

(***************************************************************************)
(* JavaScript values: undefined, null, a string, or an object whose        *)
(* fields are values.                                                      *)
(***************************************************************************)
Undef == [t |-> "undefined"]
Null == [t |-> "null"]
Str(s) == [t |-> "string", s |-> s]
Obj(f) == [t |-> "object", f |-> f]

Nullish(v) == v.t \in {"undefined", "null"}

\* ToBoolean: undefined, null and "" are falsy; objects and other strings truthy
Truthy(v) ==
  CASE v.t = "string" -> v.s /= <<>>
    [] v.t = "object" -> TRUE
    [] OTHER -> FALSE

\* v[part]: a field of an object; a missing field, or a field of a string, is undefined
Member(v, part) ==
  IF v.t = "object" /\ part \in DOMAIN v.f THEN v.f[part] ELSE Undef

ObjectObject ==
  <<"[", "o", "b", "j", "e", "c", "t", " ", "O", "b", "j", "e", "c", "t", "]">>

\* String(val ?? "")
StringOf(v) ==
  CASE Nullish(v) -> <<>>
    [] v.t = "string" -> v.s
    [] OTHER -> ObjectObject

\* lib/utils.ts getNestedValue: path.split(".").reduce((acc, part) =>
\* (acc ? acc[part] : undefined), obj), the path given as its parts
RECURSIVE getNestedValue(_, _)
getNestedValue(obj, path) ==
  IF path = <<>> THEN obj
  ELSE getNestedValue(IF Truthy(obj) THEN Member(obj, Head(path)) ELSE Undef,
                      Tail(path))

\* part_004 getNestedValue: reduce((acc, part) => acc && acc[part], obj)
RECURSIVE getNestedValueLocal(_, _)
getNestedValueLocal(obj, path) ==
  IF path = <<>> THEN obj
  ELSE getNestedValueLocal(IF Truthy(obj) THEN Member(obj, Head(path)) ELSE obj,
                           Tail(path))

(***************************************************************************)
(* The rows the pages hand to the table.  A row is an object with a        *)
(* numeric id, a name, an optional role, a team label and an optional      *)
(* nested passenger.                                                       *)
(***************************************************************************)
sAlice == <<"A", "l", "i", "c", "e">>
sBob == <<"B", "o", "b">>
sCarl == <<"C", "a", "r", "l">>
sDala == <<"D", "a", "l", "a">>
sAlA == <<"A", "l", " ", "A">>
sDriver == <<"d", "r", "i", "v", "e", "r">>
sOwner == <<"o", "w", "n", "e", "r">>
sNine == <<"9">>
sTen == <<"1", "0">>
sDash == <<"-">>      \* the sentinel label, "—" in the source

MkRow(id, name, role, team, passenger) ==
  Obj([id |-> id, name |-> Str(name), role |-> role, team |-> Str(team),
       passenger |-> passenger])

Row1 == MkRow(1, sAlice, Str(sDriver), sNine, Null)
Row2 == MkRow(2, sBob, Str(sOwner), sTen, Obj([name |-> Str(sAlA)]))
Row3 == MkRow(3, sCarl, Str(<<>>), sTen, Undef)
Row4 == MkRow(4, sDala, Undef, sNine, Obj([name |-> Str(<<>>)]))

CatalogueSeq == <<Row1, Row2, Row3, Row4>>

Catalogue == {CatalogueSeq[i] : i \in 1..Len(CatalogueSeq)}

\* the data props of the model: the runs of at most MaxRows catalogue rows
DataChoices ==
  {d \in {SubSeq(CatalogueSeq, i, j) :
            i \in 1..Len(CatalogueSeq), j \in 0..Len(CatalogueSeq)} :
     Len(d) <= MaxRows}

\* the rows of the server behind the Orders page: n orders, ids 1..n
OrderRow(n) == MkRow(n, <<>>, Undef, <<>>, Undef)

\* rows (page - 1) * per_page + 1 .. page * per_page of total rows: orderApi.list
ServerPage(total, page, perPage) ==
  LET first == (page - 1) * perPage + 1
      last == IF page * perPage < total THEN page * perPage ELSE total
  IN  [i \in 1..(IF last >= first THEN last - first + 1 ELSE 0) |->
         OrderRow(first + i - 1)]

(***************************************************************************)
(* The descriptors the pages pass.                                         *)
(***************************************************************************)
\* searchable: absent, or the field paths (each split at its dots)
NoSearchable == [configured |-> FALSE, fields |-> <<>>]
NameSearchable ==
  [configured |-> TRUE, fields |-> <<(<<"name">>), <<"passenger", "name">> >>]

\* FilterConfig: accessor is (r) => r[field] ?? "", as the pages write it
RoleFilter(default) ==
  [id |-> "role", field |-> "role", options |-> {sDriver, sOwner},
   defaultValue |-> default]
TeamFilter ==
  [id |-> "team", field |-> "team", options |-> {sNine, sTen},
   defaultValue |-> Str(<<>>)]

\* the filters props of the model: role may come with a defaultValue
FilterProps ==
  { <<RoleFilter(Str(<<>>)), TeamFilter>>,
    <<RoleFilter(Undef), TeamFilter>>,
    <<RoleFilter(Str(sOwner)), TeamFilter>> }

\* GroupByConfig: accessor is (r) => r[field]; sortGroups is absent
\* ("none") or (a, b) => b.localeCompare(a) ("desc")
GroupProp(sortGroups) ==
  << [id |-> "role", field |-> "role", sortGroups |-> "none"],
     [id |-> "team", field |-> "team", sortGroups |-> sortGroups] >>

InitialPageSize == 10
OrdersPageSize == 20

DefaultPageSizeOptions == {10, 20, 30, 40, 50}
SmallPageSizeOptions == {1, 2, 10}

(***************************************************************************)
(* State.                                                                  *)
(***************************************************************************)
VARIABLES
  rev,               \* "A": components/data-table.tsx, "B": part_004
  externalData,      \* prop data
  getRowIdProp,      \* prop getRowId: "none", "id" for (r) => String(r.id),
                     \* "index" for (r, index) => String(index)
  onDeleteProp,      \* prop onDeleteSelected supplied
  searchable,        \* prop searchable
  filters,           \* prop filters
  groupBy,           \* prop groupBy
  pageSizeOptions,   \* prop pageSizeOptions
  extProps,          \* props pagination, onPaginationChange, rowCount
  loading,           \* prop loading
  data,              \* useState data (rev A keeps a local copy of the prop)
  openDelete,        \* useState openDelete
  rowSelection,      \* useState rowSelection: the ids mapped to true
  pagination,        \* useState pagination
  searchInput,       \* useState searchInput
  search,            \* useState search (searchQuery in rev B)
  timers,            \* the pending debounce timeouts: the text each captured
  filterSelections,  \* useState filterSelections
  groupId,           \* useState groupId
  deleteCalls,       \* onDeleteSelected: calls made, argument of the last
  pageCalls,         \* the arguments of the onPaginationChange calls made
  sorting,           \* useState sorting
  headerClicks,      \* the clicks made on column headers
  dialog,            \* the reservation dialog mounted: "AddEdit", "Order"
  editing,           \* AddEdit: prop editing
  eventType,         \* useState eventType
  distanceKm,        \* distanceKmDisplay: routeKm ?? havKm, routeKm ?? 0
  hiaceCount,        \* useState hiaceCount
  coasterCount,      \* useState coasterCount
  busIds,            \* useState busIds
  quoteReqSeq,       \* useRef quoteReqSeq
  quoteTimers,       \* the pending quote timeouts: seq and inputs captured
  inFlight,          \* the /quote requests awaiting their response
  quote,             \* useState quote
  priceTotal,        \* AddEdit: form.priceTotal; Order: manualPrice
  quoteCurrency,     \* useState quoteCurrency
  quoting,           \* useState quoting
  pageKind,          \* the page around the table: "Orders", "People", ...
  statusFilter,      \* OrdersPage: useState statusFilter
  listInFlight,      \* OrdersPage: the orderApi.list requests not yet answered
  serverIds,         \* the ids of the rows the server holds
  bulk,              \* the page's bulk delete: its snapshot and its requests
  single             \* PeoplePage: the single-row delete in flight

props ==
  <<rev, getRowIdProp, onDeleteProp, searchable, filters, groupBy,
    pageSizeOptions, extProps, loading>>
searchVars == <<searchInput, search, timers>>
sortVars == <<sorting, headerClicks>>
tableVars ==
  <<props, externalData, data, openDelete, rowSelection, pagination,
    searchVars, filterSelections, groupId, deleteCalls, pageCalls, sortVars>>
inputVars == <<eventType, distanceKm, hiaceCount, coasterCount>>
quoteVars ==
  <<quoteReqSeq, quoteTimers, inFlight, quote, priceTotal, quoteCurrency,
    quoting>>
dialogVars == <<dialog, editing, inputVars, busIds, quoteVars>>
pageVars == <<pageKind, statusFilter, listInFlight, serverIds, bulk, single>>
vars == <<tableVars, dialogVars, pageVars>>

(***************************************************************************)
(* Search/filter pipeline: filteredRows.                                   *)
(***************************************************************************)
\* the row array the pipeline reads: rev A's local copy, rev B's prop
Rows == IF rev = "A" THEN data ELSE externalData

\* the query without the trim: search.toLowerCase()
QueryUntrimmed == ToLowerCase(search)

\* const q = search.trim().toLowerCase()
Query == ToLowerCase(Trim(search))

\* getNestedValue(row, String(k)) in the revision at hand
FieldValue(row, path) ==
  IF rev = "A" THEN getNestedValue(row, path) ELSE getNestedValueLocal(row, path)

\* String(val ?? "").toLowerCase().includes(q)
FieldMatches(row, path, q) ==
  Includes(ToLowerCase(StringOf(FieldValue(row, path))), q)

\* passSearch
PassSearch(row) ==
  IF ~searchable.configured \/ Query = <<>> THEN TRUE
  ELSE \E k \in 1..Len(searchable.fields) :
         FieldMatches(row, searchable.fields[k], Query)

\* f.accessor(row): (r) => r[field] ?? ""
FilterAccessor(f, row) == StringOf(Member(row, f.field))

\* the object {} of filter selections
EmptySelections == [id \in {} |-> <<>>]

\* filterSelections[f.id], undefined when the key is absent
SelectionOf(id) ==
  IF id \in DOMAIN filterSelections THEN Str(filterSelections[id]) ELSE Undef

\* rev A: (filterSelections[f.id] ?? f.defaultValue) || ""
\* rev B: filterSelections[f.id] || ""
Selected(f) ==
  LET picked == IF rev = "A" /\ Nullish(SelectionOf(f.id)) THEN f.defaultValue
                ELSE SelectionOf(f.id)
  IN  IF Truthy(picked) THEN picked.s ELSE <<>>

\* passFilters
PassFilters(row) ==
  IF Len(filters) = 0 THEN TRUE
  ELSE \A i \in 1..Len(filters) :
         Selected(filters[i]) = <<>> \/
         FilterAccessor(filters[i], row) = Selected(filters[i])

PassRow(row) == PassSearch(row) /\ PassFilters(row)

\* a pipeline that applies the search alone
filteredRowsSearchOnly == SelectSeq(Rows, PassSearch)

filteredRows == SelectSeq(Rows, PassRow)

\* countsByFilter (rev A only).  Its search reads row[k], the field path
\* used as one key: a path with a dot names no property of the row
FlatValue(row, path) ==
  IF Len(path) = 1 THEN Member(row, path[1]) ELSE Undef

PassSearchFlat(row) ==
  \E k \in 1..Len(searchable.fields) :
    Includes(ToLowerCase(StringOf(FlatValue(row, searchable.fields[k]))),
             Query)

afterSearch ==
  IF ~searchable.configured \/ Query = <<>> THEN data
  ELSE SelectSeq(data, PassSearchFlat)

\* the rows counted for filter f: every filter g other than f passes
CountedRows(f) ==
  LET PassOthers(row) ==
        \A i \in 1..Len(filters) :
          \/ filters[i].id = f.id
          \/ Selected(filters[i]) = <<>>
          \/ FilterAccessor(filters[i], row) = Selected(filters[i])
  IN  SelectSeq(afterSearch, PassOthers)

\* counts[o.value] ?? 0, the number shown beside option v of filter f
ShownCount(f, v) ==
  LET rows == CountedRows(f)
  IN  Cardinality({i \in 1..Len(rows) : FilterAccessor(f, rows[i]) = v})

\* the initial filterSelections: every truthy defaultValue, by filter id
InitialFilterSelections(fs) ==
  LET ids == {fs[i].id : i \in {j \in 1..Len(fs) : Truthy(fs[j].defaultValue)}}
  IN  [id \in ids |->
         (CHOOSE f \in {fs[i] : i \in 1..Len(fs)} : f.id = id).defaultValue.s]

(***************************************************************************)
(* Grouping engine: grouped (rev A), groupedData (rev B).                  *)
(***************************************************************************)
\* collation order of the characters that occur in labels, lowest first
Collation ==
  <<"-", "0", "1", "9", "a", "b", "c", "d", "e", "i", "l", "n", "o", "r",
    "v", "w">>

Weight(c) == CHOOSE i \in 1..Len(Collation) : Collation[i] = LowerChar(c)

\* a.localeCompare(b): -1, 0 or 1; letters compare without case first,
\* then lower case before upper case
RECURSIVE PrimaryCompare(_, _)
PrimaryCompare(a, b) ==
  CASE a = <<>> /\ b = <<>> -> 0
    [] a = <<>> -> -1
    [] b = <<>> -> 1
    [] Weight(Head(a)) < Weight(Head(b)) -> -1
    [] Weight(Head(a)) > Weight(Head(b)) -> 1
    [] OTHER -> PrimaryCompare(Tail(a), Tail(b))

RECURSIVE CaseCompare(_, _)
CaseCompare(a, b) ==
  CASE a = <<>> \/ b = <<>> -> 0
    [] Head(a) = Head(b) -> CaseCompare(Tail(a), Tail(b))
    [] Head(a) = LowerChar(Head(a)) -> -1
    [] OTHER -> 1

localeCompare(a, b) ==
  IF PrimaryCompare(a, b) /= 0 THEN PrimaryCompare(a, b) ELSE CaseCompare(a, b)

\* currentGroup: the descriptor whose id is groupId, if any
HasCurrentGroup == \E i \in 1..Len(groupBy) : groupBy[i].id = groupId
currentGroup == groupBy[CHOOSE i \in 1..Len(groupBy) : groupBy[i].id = groupId]

\* currentGroup.sortGroups ?? ((a, b) => a.localeCompare(b))
GroupCompare(a, b) ==
  IF currentGroup.sortGroups = "desc" THEN localeCompare(b, a)
  ELSE localeCompare(a, b)

\* rev A: currentGroup.accessor(r) ?? "—"; rev B: currentGroup.accessor(r) || "—"
GroupKey(row) ==
  LET k == Member(row, currentGroup.field)
  IN  IF rev = "A" THEN (IF Nullish(k) THEN sDash ELSE k.s)
      ELSE (IF Truthy(k) THEN k.s ELSE sDash)

\* the keys with one entry for every row: no reuse of map[key]
RECURSIVE KeysWithRepeats(_, _)
KeysWithRepeats(rows, seen) ==
  IF rows = <<>> THEN seen
  ELSE KeysWithRepeats(Tail(rows), Append(seen, GroupKey(Head(rows))))

\* the keys of map in the order the loop creates them
RECURSIVE InsertionKeys(_, _)
InsertionKeys(rows, seen) ==
  IF rows = <<>> THEN seen
  ELSE InsertionKeys(Tail(rows),
         IF \E i \in 1..Len(seen) : seen[i] = GroupKey(Head(rows)) THEN seen
         ELSE Append(seen, GroupKey(Head(rows))))

Digits == <<"0", "1", "2", "3", "4", "5", "6", "7", "8", "9">>
IsDigit(c) == \E i \in 1..Len(Digits) : Digits[i] = c
DigitValue(c) == (CHOOSE i \in 1..Len(Digits) : Digits[i] = c) - 1

RECURSIVE NumberValue(_)
NumberValue(s) ==
  IF s = <<>> THEN 0
  ELSE 10 * NumberValue(SubSeq(s, 1, Len(s) - 1)) + DigitValue(s[Len(s)])

\* a property key that is a canonical array index ("0", "9", "10", not "01");
\* every such numeral of at most 9 digits is below the limit 2^32 - 1, and
\* the labels of the model are shorter
IsArrayIndex(s) ==
  /\ Len(s) \in 1..9
  /\ \A i \in 1..Len(s) : IsDigit(s[i])
  /\ Len(s) = 1 \/ s[1] /= "0"

\* a sequence of keys sorted by Array.prototype.sort with the comparator
RECURSIVE InsertSorted(_, _)
InsertSorted(k, sorted) ==
  IF sorted = <<>> THEN <<k>>
  ELSE IF GroupCompare(k, Head(sorted)) < 0 THEN <<k>> \o sorted
  ELSE <<Head(sorted)>> \o InsertSorted(k, Tail(sorted))

RECURSIVE SortKeys(_)
SortKeys(keys) ==
  IF keys = <<>> THEN <<>>
  ELSE InsertSorted(keys[Len(keys)], SortKeys(SubSeq(keys, 1, Len(keys) - 1)))

RECURSIVE InsertNumeric(_, _)
InsertNumeric(k, sorted) ==
  IF sorted = <<>> THEN <<k>>
  ELSE IF NumberValue(k) < NumberValue(Head(sorted)) THEN <<k>> \o sorted
  ELSE <<Head(sorted)>> \o InsertNumeric(k, Tail(sorted))

RECURSIVE SortNumeric(_)
SortNumeric(keys) ==
  IF keys = <<>> THEN <<>>
  ELSE InsertNumeric(Head(keys), SortNumeric(Tail(keys)))

IsNotArrayIndex(s) == ~IsArrayIndex(s)

\* the order in which Object.keys and Object.entries list an object whose
\* string keys were created in the order ins: array indices first, ascending,
\* then the other keys in creation order
OwnKeys(ins) ==
  SortNumeric(SelectSeq(ins, IsArrayIndex)) \o SelectSeq(ins, IsNotArrayIndex)

\* the labels of the buckets in the order they are rendered
\* rev A: keys = Object.keys(map); keys.sort(cmp); rebuilt by reduce into a
\*        new object, listed by Object.entries
\* rev B: Object.entries(groups)
GroupLabels ==
  IF rev = "A" THEN OwnKeys(SortKeys(OwnKeys(InsertionKeys(filteredRows, <<>>))))
  ELSE OwnKeys(InsertionKeys(filteredRows, <<>>))

\* map[key]: the filtered rows whose key is the label, in filtered order
BucketRows(label) ==
  LET InBucket(r) == GroupKey(r) = label IN SelectSeq(filteredRows, InBucket)

\* grouped / groupedData: null (<<>> with HasCurrentGroup false) or the
\* buckets in rendering order
grouped ==
  IF ~HasCurrentGroup THEN <<>>
  ELSE [i \in 1..Len(GroupLabels) |->
          [label |-> GroupLabels[i], rows |-> BucketRows(GroupLabels[i])]]

(***************************************************************************)
(* The table instance: useReactTable({data: filteredRows, state: {sorting, *)
(* rowSelection, pagination}, getRowId, getCoreRowModel,                   *)
(* getPaginationRowModel, getSortedRowModel}).  The sorting state is       *)
(* never changed by the component, so the sorted row model is the core     *)
(* row model.                                                              *)
(***************************************************************************)
\* getRowId: (row, index) => getRowId?.(row, index) ?? String(index)
RowId(row, index) == IF getRowIdProp = "id" THEN row.f.id ELSE index

\* getCoreRowModel().rows: one table row per filtered row, index from 0
CoreRows ==
  LET fr == filteredRows
  IN  [i \in 1..Len(fr) |-> [id |-> RowId(fr[i], i - 1), original |-> fr[i]]]

\* Math.ceil(n / d)
Ceil(n, d) == (n + d - 1) \div d

\* table.getPageCount(): no pageCount or rowCount option is passed, so
\* Math.ceil(getPrePaginationRowModel().rows.length / pageSize)
PageCount == Ceil(Len(CoreRows), pagination.pageSize)

\* a slice that starts one row late: rows.slice(pageSize * pageIndex + 1, ...)
PageSliceLate(rows, pageIndex, pageSize) ==
  LET start == pageSize * pageIndex + 1
      end == IF start + pageSize < Len(rows) THEN start + pageSize ELSE Len(rows)
  IN  IF start >= Len(rows) THEN <<>> ELSE SubSeq(rows, start + 1, end)

\* rows.slice(pageSize * pageIndex, pageSize * pageIndex + pageSize)
PageSlice(rows, pageIndex, pageSize) ==
  LET start == pageSize * pageIndex
      end == IF start + pageSize < Len(rows) THEN start + pageSize ELSE Len(rows)
  IN  IF start >= Len(rows) THEN <<>> ELSE SubSeq(rows, start + 1, end)

\* table.getRowModel().rows: the pagination row model
PageRows == PageSlice(CoreRows, pagination.pageIndex, pagination.pageSize)

PageIds == LET rows == PageRows IN {rows[i].id : i \in 1..Len(rows)}

\* row.getIsSelected()
IsSelected(tableRow) == tableRow.id \in rowSelection

\* table.getFilteredSelectedRowModel().rows: no filtered row model is
\* configured, so the rows of the core row model that are selected
FilteredSelectedRows == SelectSeq(CoreRows, IsSelected)

Originals(tableRows) == [i \in 1..Len(tableRows) |-> tableRows[i].original]

getCanPreviousPage == pagination.pageIndex > 0

\* a next-page button that is never disabled
AlwaysCanNextPage == TRUE

getCanNextPage == PageCount > 0 /\ pagination.pageIndex < PageCount - 1

getIsAllPageRowsSelected ==
  LET rows == PageRows
  IN  Len(rows) > 0 /\ \A i \in 1..Len(rows) : IsSelected(rows[i])

getIsSomePageRowsSelected ==
  LET rows == PageRows
  IN  ~getIsAllPageRowsSelected /\ \E i \in 1..Len(rows) : IsSelected(rows[i])

\* filteredRows.indexOf(gr), from 0; -1 when absent
IndexOf(rows, r) ==
  IF \E i \in 1..Len(rows) : rows[i] = r
  THEN (CHOOSE i \in 1..Len(rows) :
          rows[i] = r /\ \A j \in 1..(i - 1) : rows[j] /= r) - 1
  ELSE -1

\* rows.find(pred): the first table row of the page with the id / the original
FindById(id) == SelectSeq(PageRows, LAMBDA tr : tr.id = id)
FindByOriginal(r) == SelectSeq(PageRows, LAMBDA tr : tr.original = r)

\* the table row rendered for row gr at position idx of its bucket (<<>>: none)
\* rev A: id = getRowId?.(gr, idx) ?? String(filteredRows.indexOf(gr));
\*        rows.find(r => r.id === id) ?? rows.find(r => r.original === gr)
\* rev B: rows.find(r => r.original === row)
GroupRowRendered(gr, idx) ==
  LET id == IF getRowIdProp /= "none" THEN RowId(gr, idx)
            ELSE IndexOf(filteredRows, gr)
      found == IF rev = "A" /\ FindById(id) /= <<>> THEN FindById(id)
               ELSE FindByOriginal(gr)
  IN  IF found = <<>> THEN <<>> ELSE <<Head(found)>>

RECURSIVE BucketRendered(_, _)
BucketRendered(groupRows, idx) ==
  IF idx >= Len(groupRows) THEN <<>>
  ELSE GroupRowRendered(groupRows[idx + 1], idx)
         \o BucketRendered(groupRows, idx + 1)

RECURSIVE GroupedRendered(_)
GroupedRendered(buckets) ==
  IF buckets = <<>> THEN <<>>
  ELSE BucketRendered(Head(buckets).rows, 0) \o GroupedRendered(Tail(buckets))

\* the table rows the body renders, top to bottom
RenderedRows ==
  LET page == PageRows
  IN  IF Len(page) = 0 THEN <<>>
      ELSE IF HasCurrentGroup THEN GroupedRendered(grouped)
      ELSE page

(***************************************************************************)
(* Operations.  The delete dialog is modal: while it is open the user can  *)
(* only confirm or cancel; a debounce timer and the parent's next data     *)
(* prop are not held back by it.                                           *)
(***************************************************************************)
\* a recomputation of the filtered rows that leaves the page where it was
KeepPageOf(p) == p

\* the page index after the filtered rows were recomputed: rev A's effect
\* on [search, filterSelections] and the table's autoResetPageIndex (the
\* data option changed) both call for page 0
FirstPageOf(p) == [p EXCEPT !.pageIndex = 0]

\* the parent renders with another loading prop
LoadingChange(l) ==
  /\ l /= loading
  /\ loading' = l
  /\ UNCHANGED <<rev, getRowIdProp, onDeleteProp, searchable, filters, groupBy,
                 pageSizeOptions, extProps, externalData, data, openDelete,
                 rowSelection, pagination, searchVars, filterSelections,
                 groupId, deleteCalls, pageCalls,
                 sortVars, dialogVars, pageVars>>

\* the parent renders with a new data prop; rev A copies it in an effect
DataPropChange(d) ==
  /\ externalData' = d
  /\ data' = d
  /\ pagination' = FirstPageOf(pagination)
  /\ UNCHANGED <<props, openDelete, rowSelection, searchVars, filterSelections,
                 groupId, deleteCalls, pageCalls,
                 sortVars, dialogVars, pageVars>>

\* an effect on [searchInput] that sets a timeout and clears none
TimersWithoutCleanup(q) == timers \cup {q}

\* the effect on [searchInput] after the input became q: the cleanup
\* clearTimeout(t) of the previous run, then setTimeout(() => setSearch(q))
TimersAfterInput(q) == {q}

\* Input onChange: setSearchInput(e.target.value), then the effect
SetSearchInput(q) ==
  /\ searchable.configured /\ ~openDelete
  /\ q /= searchInput
  /\ searchInput' = q
  /\ timers' = TimersAfterInput(q)
  /\ UNCHANGED <<props, externalData, data, openDelete, rowSelection,
                 pagination, search, filterSelections, groupId, deleteCalls,
                 pageCalls,
                 sortVars, dialogVars, pageVars>>

\* a debounce timeout fires: setSearch(text), the text its closure captured
DebounceFire ==
  \E text \in timers :
    /\ timers' = timers \ {text}
    /\ search' = text
    /\ pagination' = IF text /= search THEN FirstPageOf(pagination)
                     ELSE pagination
  /\ UNCHANGED <<props, externalData, data, openDelete, rowSelection,
                 searchInput, filterSelections, groupId, deleteCalls, pageCalls,
                 sortVars, dialogVars, pageVars>>

\* the clear button of the search box: setSearchInput(""); setSearch("")
ClearSearch ==
  /\ searchable.configured /\ ~openDelete
  /\ searchInput /= <<>>
  /\ searchInput' = <<>>
  /\ search' = <<>>
  /\ timers' = TimersAfterInput(<<>>)
  /\ pagination' = IF search /= <<>> THEN FirstPageOf(pagination) ELSE pagination
  /\ UNCHANGED <<props, externalData, data, openDelete, rowSelection,
                 filterSelections, groupId, deleteCalls, pageCalls,
                 sortVars, dialogVars, pageVars>>

\* hasActiveFilters
\* rev A: Object.entries(filterSelections).some(([, v]) => !!v) || !!search.trim()
\* rev B: !!searchQuery || Object.values(filterSelections).some(Boolean)
hasActiveFilters ==
  \/ \E id \in DOMAIN filterSelections : filterSelections[id] /= <<>>
  \/ IF rev = "A" THEN Trim(search) /= <<>> ELSE search /= <<>>

\* the body shows EmptyState: table.getRowModel().rows is empty
EmptyStateShown == Len(PageRows) = 0

\* the variant EmptyState renders: the loading card first, then the copy
\* chosen by hasActiveFilters
EmptyStateVariant ==
  IF loading THEN "loading"
  ELSE IF hasActiveFilters THEN "no-results" ELSE "no-data"

\* EmptyState renders the reset button: not loading, and hasActiveFilters
ResetOffered == EmptyStateShown /\ ~loading /\ hasActiveFilters

\* the reset button of EmptyState
\* rev A: resetSearchAndFilters: setSearchInput(""); setSearch("");
\*        clearAllFilters()
\* rev B: clearAllFilters: setFilterSelections({}); setSearchInput("");
\*        setSearchQuery("")
ResetSearchAndFilters ==
  /\ ~openDelete
  /\ ResetOffered
  /\ searchInput' = <<>>
  /\ search' = <<>>
  /\ timers' = IF searchInput /= <<>> THEN TimersAfterInput(<<>>) ELSE timers
  /\ filterSelections' = EmptySelections
  /\ pagination' = FirstPageOf(pagination)
  /\ UNCHANGED <<props, externalData, data, openDelete, rowSelection, groupId,
                 deleteCalls, pageCalls,
                 sortVars, dialogVars, pageVars>>

FilterIds == {filters[i].id : i \in 1..Len(filters)}
FilterById(id) == CHOOSE f \in {filters[i] : i \in 1..Len(filters)} : f.id = id

\* the value the filter's Select shows, "" standing for ALL_TOKEN
\* rev A: filterSelections[f.id] ?? ""; rev B: filterSelections[f.id] || ""
ShownSelection(id) == StringOf(SelectionOf(id))

\* setFilter(id, value): {...prev, [id]: value}
WithSelection(id, v) ==
  [k \in DOMAIN filterSelections \cup {id} |->
     IF k = id THEN v ELSE filterSelections[k]]

\* Select onValueChange (an option, or "" for ALL_TOKEN), and in rev A the
\* chip's remove button, which is setFilter(id, "")
SetFilter(id, v) ==
  /\ ~openDelete
  /\ id \in FilterIds
  /\ v \in FilterById(id).options \cup {<<>>}
  /\ v /= ShownSelection(id)
  /\ filterSelections' = WithSelection(id, v)
  /\ pagination' = FirstPageOf(pagination)
  /\ UNCHANGED <<props, externalData, data, openDelete, rowSelection,
                 searchVars, groupId, deleteCalls, pageCalls,
                 sortVars, dialogVars, pageVars>>

\* rev A, the Clear button beside the chips: clearAllFilters()
ClearAllFilters ==
  /\ rev = "A" /\ ~openDelete
  /\ \E id \in DOMAIN filterSelections : filterSelections[id] /= <<>>
  /\ filterSelections' = EmptySelections
  /\ pagination' = FirstPageOf(pagination)
  /\ UNCHANGED <<props, externalData, data, openDelete, rowSelection,
                 searchVars, groupId, deleteCalls, pageCalls,
                 sortVars, dialogVars, pageVars>>

\* the Group By Select: setGroupId(v === "none" ? "" : v)
SetGroup(g) ==
  /\ ~openDelete
  /\ Len(groupBy) > 0
  /\ g \in {groupBy[i].id : i \in 1..Len(groupBy)} \cup {""}
  /\ g /= groupId
  /\ groupId' = g
  /\ UNCHANGED <<props, externalData, data, openDelete, rowSelection,
                 pagination, searchVars, filterSelections, deleteCalls, pageCalls,
                 sortVars, dialogVars, pageVars>>

\* a row's checkbox: row.toggleSelected(!!v)
ToggleRow(i) ==
  /\ ~openDelete
  /\ i \in 1..Len(RenderedRows)
  /\ LET tr == RenderedRows[i]
     IN  rowSelection' = IF IsSelected(tr) THEN rowSelection \ {tr.id}
                         ELSE rowSelection \cup {tr.id}
  /\ UNCHANGED <<props, externalData, data, openDelete, pagination, searchVars,
                 filterSelections, groupId, deleteCalls, pageCalls,
                 sortVars, dialogVars, pageVars>>

\* table.toggleAllRowsSelected(value): every row of the core row model
toggleAllRowsSelected(value) ==
  IF value THEN rowSelection \cup {CoreRows[i].id : i \in 1..Len(CoreRows)}
  ELSE {}

\* table.toggleAllPageRowsSelected(value): sets or deletes the id of every
\* row of table.getRowModel().rows
toggleAllPageRowsSelected(value) ==
  IF value THEN rowSelection \cup PageIds ELSE rowSelection \ PageIds

\* the header checkbox: checked is all-selected, or "indeterminate" when
\* some are; a click reports true unless the box was checked
ToggleAllPage ==
  /\ ~openDelete
  /\ rowSelection' = toggleAllPageRowsSelected(~getIsAllPageRowsSelected)
  /\ UNCHANGED <<props, externalData, data, openDelete, pagination, searchVars,
                 filterSelections, groupId, deleteCalls, pageCalls,
                 sortVars, dialogVars, pageVars>>

\* table.setPageSize(n): keeps the top row of the page in view
\* pageIndex = Math.floor(old.pageSize * old.pageIndex / Math.max(1, n))
setPageSize(n) ==
  [pageIndex |-> (pagination.pageSize * pagination.pageIndex) \div n,
   pageSize |-> n]

\* the rows-per-page Select
SetPageSize(n) ==
  /\ ~openDelete
  /\ n \in pageSizeOptions
  /\ n /= pagination.pageSize
  /\ pagination' = setPageSize(n)
  /\ UNCHANGED <<props, externalData, data, openDelete, rowSelection,
                 searchVars, filterSelections, groupId, deleteCalls, pageCalls,
                 sortVars, dialogVars, pageVars>>

\* table.nextPage(), behind a button disabled unless getCanNextPage()
NextPage ==
  /\ ~openDelete
  /\ getCanNextPage
  /\ pagination' = [pagination EXCEPT !.pageIndex = @ + 1]
  /\ UNCHANGED <<props, externalData, data, openDelete, rowSelection,
                 searchVars, filterSelections, groupId, deleteCalls, pageCalls,
                 sortVars, dialogVars, pageVars>>

\* table.previousPage(), behind a button disabled unless getCanPreviousPage()
PreviousPage ==
  /\ ~openDelete
  /\ getCanPreviousPage
  /\ pagination' = [pagination EXCEPT !.pageIndex = @ - 1]
  /\ UNCHANGED <<props, externalData, data, openDelete, rowSelection,
                 searchVars, filterSelections, groupId, deleteCalls, pageCalls,
                 sortVars, dialogVars, pageVars>>

\* rev A only: table.setPageIndex(0)
FirstPage ==
  /\ rev = "A" /\ ~openDelete
  /\ getCanPreviousPage
  /\ pagination' = [pagination EXCEPT !.pageIndex = 0]
  /\ UNCHANGED <<props, externalData, data, openDelete, rowSelection,
                 searchVars, filterSelections, groupId, deleteCalls, pageCalls,
                 sortVars, dialogVars, pageVars>>

\* rev A only: table.setPageIndex(table.getPageCount() - 1)
LastPage ==
  /\ rev = "A" /\ ~openDelete
  /\ getCanNextPage
  /\ pagination' = [pagination EXCEPT !.pageIndex = PageCount - 1]
  /\ UNCHANGED <<props, externalData, data, openDelete, rowSelection,
                 searchVars, filterSelections, groupId, deleteCalls, pageCalls,
                 sortVars, dialogVars, pageVars>>

\* the Supprimer button, rendered when onDeleteSelected is supplied and
\* getFilteredSelectedRowModel().rows.length > 0: setOpenDelete(true)
OpenDelete ==
  /\ ~openDelete
  /\ onDeleteProp /\ Len(FilteredSelectedRows) > 0
  /\ openDelete' = TRUE
  /\ UNCHANGED <<props, externalData, data, rowSelection, pagination,
                 searchVars, filterSelections, groupId, deleteCalls, pageCalls,
                 sortVars, dialogVars, pageVars>>

\* AlertDialogCancel (or Escape): onOpenChange(false)
CancelDelete ==
  /\ openDelete
  /\ openDelete' = FALSE
  /\ UNCHANGED <<props, externalData, data, rowSelection, pagination,
                 searchVars, filterSelections, groupId, deleteCalls, pageCalls,
                 sortVars, dialogVars, pageVars>>

\* what the caller's onDeleteSelected does when called: it returns, it
\* returns a promise that later rejects, or it throws
CallbackOutcomes == {"returns", "rejects", "throws"}

\* the selection after AlertDialogAction's onClick: table.resetRowSelection()
\* comes after the callback and is skipped when the callback throws
SelectionAfterConfirm(outcome) ==
  IF onDeleteProp /\ outcome = "throws" THEN rowSelection ELSE {}

\* openDelete after the onClick
\* rev A: setOpenDelete(false) comes before the callback
\* rev B: setOpenDelete(false) comes last, and the dialog's own close
\*        handler runs only after an onClick that returned
OpenAfterConfirm(outcome) ==
  rev = "B" /\ onDeleteProp /\ outcome = "throws"

\* a confirm that also drops the selected rows from the local rows
ConfirmDeleteOptimistic(outcome) ==
  /\ openDelete
  /\ deleteCalls.n < MaxDeleteCalls
  /\ deleteCalls' = IF onDeleteProp
                    THEN [n |-> deleteCalls.n + 1,
                          last |-> Originals(FilteredSelectedRows)]
                    ELSE deleteCalls
  /\ rowSelection' = SelectionAfterConfirm(outcome)
  /\ openDelete' = OpenAfterConfirm(outcome)
  /\ LET Kept(r) == \A i \in 1..Len(FilteredSelectedRows) :
                      FilteredSelectedRows[i].original /= r
     IN  /\ data' = SelectSeq(data, Kept)
         /\ externalData' = SelectSeq(externalData, Kept)
  /\ UNCHANGED <<props, pagination, searchVars, filterSelections, groupId,
                 pageCalls,
                 sortVars, dialogVars, pageVars>>

\* AlertDialogAction onClick
ConfirmDelete(outcome) ==
  /\ openDelete
  /\ deleteCalls.n < MaxDeleteCalls
  /\ deleteCalls' = IF onDeleteProp
                    THEN [n |-> deleteCalls.n + 1,
                          last |-> Originals(FilteredSelectedRows)]
                    ELSE deleteCalls
  /\ rowSelection' = SelectionAfterConfirm(outcome)
  /\ openDelete' = OpenAfterConfirm(outcome)
  /\ UNCHANGED <<props, externalData, data, pagination, searchVars,
                 filterSelections, groupId, pageCalls,
                 sortVars, dialogVars, pageVars>>

(***************************************************************************)
(* Specifications.                                                         *)
(***************************************************************************)
NoExtProps ==
  [supplied |-> FALSE, pagination |-> [pageIndex |-> 0, pageSize |-> 0],
   rowCount |-> 0]

(***************************************************************************)
(* The Orders page around its table: rows, total, loading and pagination   *)
(* are the table's data, rowCount, loading and pagination props.           *)
(***************************************************************************)
\* the status buttons modelled, "" being "Tout"
OrderStatuses == {"", "pending", "contacted"}

\* the server's orders of a status: meta.total of its answer
ServerTotal(status) ==
  CASE status = "" -> 3
    [] status = "pending" -> 2
    [] OTHER -> 0

\* the parameters fetchData passes to orderApi.list in a render with the
\* status st and the pagination pg
ListParams(st, pg) ==
  [status |-> st, page |-> pg.pageIndex + 1, per_page |-> pg.pageSize]

\* a status button: setStatusFilter(s); setPagination(prev => ({...prev,
\* pageIndex: 0})).  The new pagination object gives fetchData a new
\* identity, and the effect on [fetchData] calls it: setLoading(true) and
\* a request with the new parameters
StatusClick(s) ==
  /\ pageKind = "Orders"
  /\ statusFilter' = s
  /\ extProps' = [extProps EXCEPT !.pagination.pageIndex = 0]
  /\ loading' = TRUE
  /\ listInFlight' = listInFlight \cup {ListParams(s, extProps'.pagination)}
  /\ UNCHANGED <<rev, getRowIdProp, onDeleteProp, searchable, filters, groupBy,
                 pageSizeOptions, externalData, data, openDelete,
                 rowSelection, pagination, searchVars, filterSelections,
                 groupId, deleteCalls, pageCalls, sortVars, dialogVars,
                 pageKind, serverIds, bulk, single>>

\* OrderDetailDialog onUpdate={fetchData}: the same request once more
Refresh ==
  /\ pageKind = "Orders"
  /\ loading' = TRUE
  /\ listInFlight' =
       listInFlight \cup {ListParams(statusFilter, extProps.pagination)}
  /\ UNCHANGED <<rev, getRowIdProp, onDeleteProp, searchable, filters, groupBy,
                 pageSizeOptions, extProps, externalData, data, openDelete,
                 rowSelection, pagination, searchVars, filterSelections,
                 groupId, deleteCalls, pageCalls, sortVars, dialogVars,
                 pageKind, statusFilter, serverIds, bulk, single>>

\* the answer to the request r arrives: setRows(rows),
\* setTotal(meta.total), setLoading(false); the table is rendered with the
\* new data
ListResponse(r) ==
  /\ r \in listInFlight
  /\ listInFlight' = listInFlight \ {r}
  /\ externalData' = ServerPage(ServerTotal(r.status), r.page, r.per_page)
  /\ data' = externalData'
  /\ extProps' = [extProps EXCEPT !.rowCount = ServerTotal(r.status)]
  /\ loading' = FALSE
  /\ pagination' = FirstPageOf(pagination)
  /\ UNCHANGED <<rev, getRowIdProp, onDeleteProp, searchable, filters, groupBy,
                 pageSizeOptions, openDelete, rowSelection, searchVars,
                 filterSelections, groupId, deleteCalls, pageCalls, sortVars,
                 dialogVars, pageKind, statusFilter, serverIds, bulk, single>>

(***************************************************************************)
(* The People and Reservations pages: rows is the table's data prop, and   *)
(* onDeleteSelected removes the rows optimistically.                       *)
(***************************************************************************)
\* isServerId: /^\d+$/.test(id); the rows modelled carry numeric ids
isServerId(id) == id \in Nat

\* the ids of a sequence of rows
IdsOf(rows) == {rows[i].f.id : i \in 1..Len(rows)}

\* rows.filter(x => !ids.includes(x.id))
WithoutIds(rows, ids) == SelectSeq(rows, LAMBDA r : r.f.id \notin ids)

\* what reservationApi.list answers: the rows the server still holds
ServerRows == SelectSeq(CatalogueSeq, LAMBDA r : r.f.id \in serverIds)

\* no bulk delete is awaiting anything, and none of its requests is out
BulkSettled ==
  IF bulk = Null THEN TRUE
  ELSE bulk.pending = {} /\ bulk.state \in {"done", "caught"}

\* the requests a bulk delete sends: People skips local ids
BulkRequests(ids) ==
  IF pageKind = "People" THEN {id \in ids : isServerId(id)} ELSE ids

\* the handler's state once Promise.all has nothing left to wait for:
\* Reservations goes on to await reload()
AfterAllRemoved == IF pageKind = "Reservations" THEN "reloading" ELSE "done"

\* the confirm button of the table's dialog with the page's
\* onDeleteSelected: the table closes the dialog, calls the handler with
\* the filtered selected rows and resets the selection; the handler keeps
\* prev = rows, drops the selected rows and sends one remove per row
BulkDelete ==
  /\ pageKind \in {"People", "Reservations"}
  /\ openDelete
  /\ BulkSettled
  /\ deleteCalls.n < MaxDeleteCalls
  /\ LET selected == Originals(FilteredSelectedRows)
         ids == IdsOf(selected)
         reqs == BulkRequests(ids)
     IN  /\ deleteCalls' = [n |-> deleteCalls.n + 1, last |-> selected]
         /\ rowSelection' = {}
         /\ openDelete' = FALSE
         /\ IF ids = {}
            THEN UNCHANGED <<externalData, data, pagination, bulk, loading>>
            ELSE /\ externalData' = WithoutIds(externalData, ids)
                 /\ data' = externalData'
                 /\ pagination' = FirstPageOf(pagination)
                 /\ bulk' = [prev |-> externalData, selected |-> ids,
                             pending |-> reqs, failed |-> {},
                             state |-> IF reqs = {} THEN AfterAllRemoved
                                       ELSE "awaiting"]
                 /\ loading' = (reqs = {} /\ pageKind = "Reservations")
  /\ UNCHANGED <<rev, getRowIdProp, onDeleteProp, searchable, filters, groupBy,
                 pageSizeOptions, extProps, searchVars, filterSelections,
                 groupId, pageCalls, sortVars, dialogVars, pageKind,
                 statusFilter, listInFlight, serverIds, single>>

\* one remove request of the bulk delete ends.  ok: the server has
\* deleted the row.  Promise.all rejects at the first failure, while the
\* other requests go on: the catch block runs setRows(prev) at once
RemoveResponse(id, ok) ==
  /\ bulk /= Null
  /\ id \in (IF bulk = Null THEN {} ELSE bulk.pending)
  /\ serverIds' = IF ok THEN serverIds \ {id} ELSE serverIds
  /\ LET left == bulk.pending \ {id}
         failed == IF ok THEN bulk.failed ELSE bulk.failed \cup {id}
         state == IF bulk.state /= "awaiting" THEN bulk.state
                  ELSE IF ~ok THEN "caught"
                  ELSE IF left = {} THEN AfterAllRemoved
                  ELSE "awaiting"
     IN  /\ bulk' = [bulk EXCEPT !.pending = left, !.failed = failed,
                                 !.state = state]
         /\ IF bulk.state = "awaiting" /\ ~ok
            THEN /\ externalData' = bulk.prev
                 /\ data' = bulk.prev
                 /\ pagination' = FirstPageOf(pagination)
            ELSE UNCHANGED <<externalData, data, pagination>>
         /\ loading' = IF bulk.state = "awaiting" /\ state = "reloading"
                       THEN TRUE ELSE loading
  /\ UNCHANGED <<rev, getRowIdProp, onDeleteProp, searchable, filters, groupBy,
                 pageSizeOptions, extProps, openDelete, rowSelection,
                 searchVars, filterSelections, groupId, deleteCalls,
                 pageCalls, sortVars, dialogVars, pageKind, statusFilter,
                 listInFlight, single>>

\* the list request of reload() is answered: setRows(resvRes.data.rows),
\* setLoading(false)
ReloadResponse ==
  /\ bulk /= Null
  /\ (IF bulk = Null THEN FALSE ELSE bulk.state = "reloading")
  /\ bulk' = [bulk EXCEPT !.state = "done"]
  /\ externalData' = ServerRows
  /\ data' = ServerRows
  /\ pagination' = FirstPageOf(pagination)
  /\ loading' = FALSE
  /\ UNCHANGED <<rev, getRowIdProp, onDeleteProp, searchable, filters, groupBy,
                 pageSizeOptions, extProps, openDelete, rowSelection,
                 searchVars, filterSelections, groupId, deleteCalls,
                 pageCalls, sortVars, dialogVars, pageKind, statusFilter,
                 listInFlight, serverIds, single>>

\* Supprimer in a row's menu on the People page: prev = rows, the row is
\* dropped, peopleApi.remove(p.id) is sent
SingleDelete(id) ==
  /\ pageKind = "People"
  /\ ~openDelete
  /\ single = Null
  /\ id \in IdsOf(externalData)
  /\ single' = [prev |-> externalData, id |-> id]
  /\ externalData' = WithoutIds(externalData, {id})
  /\ data' = externalData'
  /\ pagination' = FirstPageOf(pagination)
  /\ UNCHANGED <<props, openDelete, rowSelection, searchVars,
                 filterSelections, groupId, deleteCalls, pageCalls, sortVars,
                 dialogVars, pageKind, statusFilter, listInFlight, serverIds,
                 bulk>>

\* the row's remove request ends; on failure the catch block runs
\* setRows(prev)
SingleResponse(ok) ==
  /\ single /= Null
  /\ single' = Null
  /\ serverIds' = IF ok THEN serverIds \ {single.id} ELSE serverIds
  /\ IF ok THEN UNCHANGED <<externalData, data, pagination>>
     ELSE /\ externalData' = single.prev
          /\ data' = single.prev
          /\ pagination' = FirstPageOf(pagination)
  /\ UNCHANGED <<props, openDelete, rowSelection, searchVars,
                 filterSelections, groupId, deleteCalls, pageCalls, sortVars,
                 dialogVars, pageKind, statusFilter, listInFlight, bulk>>

\* the caller's columns that the table can sort: an accessor and no
\* enableSorting: false
SortableColumns == {"event", "status"}

\* a click on the header cell of a sortable column: the cell is
\* <TableHead> around flexRender(columnDef.header), a string or a <div>,
\* and neither carries a click handler, so that sorting stays as it is
ClickHeader(col) ==
  /\ ~openDelete
  /\ col \in SortableColumns
  /\ headerClicks < MaxHeaderClicks
  /\ headerClicks' = headerClicks + 1
  /\ sorting' = sorting
  /\ UNCHANGED <<props, externalData, data, openDelete, rowSelection,
                 pagination, searchVars, filterSelections, groupId,
                 deleteCalls, pageCalls, dialogVars, pageVars>>

(***************************************************************************)
(* The reservation dialogs: AddEditReservationDialog ("AddEdit") and      *)
(* OrderReservation ("Order").                                             *)
(***************************************************************************)
\* the buses prop, and busTypeIndex: id -> type
Buses == {"h1", "h2", "c1", "u1"}

busTypeIndex ==
  [b \in Buses |->
     IF b \in {"h1", "h2"} THEN "hiace"
     ELSE IF b = "c1" THEN "coaster" ELSE "unknown"]

\* countByType(ids)
countByType(ids) ==
  [h |-> Cardinality({id \in ids \cap Buses : busTypeIndex[id] = "hiace"}),
   c |-> Cardinality({id \in ids \cap Buses : busTypeIndex[id] = "coaster"})]

\* the values of the quote-relevant inputs in the model
EventTypes == {"none", "wedding"}
Distances == {0, 10}
Counts == 0..MaxVehicles

\* the deps of the quoting effect, which are what a request is made of
InputsOf(ev, km, h, c) ==
  [eventType |-> ev, distanceKm |-> km, hiaceCount |-> h, coasterCount |-> c]

Inputs == InputsOf(eventType, distanceKm, hiaceCount, coasterCount)

\* haveCounts && distanceOk; AddEdit accepts a distance of 0, Order does not
Quotable(i) ==
  /\ i.hiaceCount > 0 \/ i.coasterCount > 0
  /\ IF dialog = "AddEdit" THEN i.distanceKm >= 0 ELSE i.distanceKm > 0

\* the server's answer to POST /quote: its price for the request, in the
\* currency it names
Currencies == {"FCFA", "USD"}

Fare(i) ==
  1 + i.distanceKm * (i.hiaceCount + 2 * i.coasterCount)
    + (IF i.eventType = "none" THEN 0 ELSE 5)

QuoteFull(i, cur) ==
  [request |-> i, currency |-> cur, client_payable |-> Fare(i)]

\* a run of the quoting effect after a render with the inputs i, the
\* form's price being price: the previous run's cleanup (cancelled = true,
\* clearTimeout), ++quoteReqSeq, then either setQuote(null) (and in
\* AddEdit setField("priceTotal", 0)) or a new timer
RunQuoteEffect(i, price) ==
  /\ quoteReqSeq' = quoteReqSeq + 1
  /\ inFlight' = {[r EXCEPT !.cancelled = TRUE] : r \in inFlight}
  /\ quoteTimers' = IF Quotable(i)
                     THEN {[seq |-> quoteReqSeq + 1, request |-> i]}
                     ELSE {}
  /\ quote' = IF Quotable(i) THEN quote ELSE Null
  /\ priceTotal' = IF Quotable(i) \/ dialog = "Order" THEN price ELSE 0
  /\ UNCHANGED <<quoteCurrency, quoting>>

\* one of the inputs is set to another value; the effect on
\* [eventType, distanceKmDisplay, hiaceCount, coasterCount] runs
ChangeInputs(i) ==
  /\ dialog /= "none"
  /\ i /= Inputs
  /\ quoteReqSeq < MaxQuoteSeq
  /\ eventType' = i.eventType
  /\ distanceKm' = i.distanceKm
  /\ hiaceCount' = i.hiaceCount
  /\ coasterCount' = i.coasterCount
  /\ RunQuoteEffect(i, priceTotal)
  /\ UNCHANGED <<tableVars, pageVars, dialog, editing, busIds>>

\* EventCombobox onChange={setEventType}
SetEventType(ev) == ChangeInputs([Inputs EXCEPT !.eventType = ev])

\* the map picker's onRouteKmChange={setRouteKm}
SetRouteKm(km) == ChangeInputs([Inputs EXCEPT !.distanceKm = km])

\* the Hiace input: setHiaceCount(Math.max(0, Math.floor(Number(value))))
SetHiaceCount(n) == ChangeInputs([Inputs EXCEPT !.hiaceCount = n])

\* the Coaster input: setCoasterCount(...)
SetCoasterCount(n) == ChangeInputs([Inputs EXCEPT !.coasterCount = n])

\* the quote timeout fires: setQuoting(true), then api.post("/quote", ...)
\* with the inputs its closure captured
QuoteTimerFire ==
  \E t \in quoteTimers :
    /\ quoteTimers' = quoteTimers \ {t}
    /\ quoting' = TRUE
    /\ inFlight' = inFlight \cup
                     {[seq |-> t.seq, request |-> t.request,
                       cancelled |-> FALSE]}
    /\ UNCHANGED <<tableVars, pageVars, dialog, editing, inputVars, busIds,
                   quoteReqSeq, quote, priceTotal, quoteCurrency>>

\* a response handled as if no request were ever superseded
NeverStale(r) == FALSE

\* cancelled || seq !== quoteReqSeq.current
Stale(r) == r.cancelled \/ r.seq /= quoteReqSeq

\* the response to a request arrives: outcome is "error" or the currency
\* of a successful answer
QuoteResponse(r, outcome) ==
  /\ r \in inFlight
  /\ inFlight' = inFlight \ {r}
  /\ IF Stale(r)
     THEN UNCHANGED <<quote, priceTotal, quoteCurrency, quoting>>
     ELSE IF outcome = "error"
     THEN /\ quote' = Null
          /\ quoting' = FALSE
          /\ UNCHANGED <<priceTotal, quoteCurrency>>
     ELSE /\ quote' = QuoteFull(r.request, outcome)
          /\ priceTotal' = Fare(r.request)
          /\ quoteCurrency' = outcome
          /\ quoting' = FALSE
  /\ UNCHANGED <<tableVars, pageVars, dialog, editing, inputVars, busIds, quoteReqSeq,
                 quoteTimers>>

\* setBusIdsLimited(next): the bus ids stored afterwards
setBusIdsLimited(next) ==
  IF next \ busIds = {} THEN next
  ELSE LET added == CHOOSE id \in next \ busIds : TRUE
           t == busTypeIndex[added]
           n == countByType(next)
       IN  IF t = "hiace" /\ n.h > hiaceCount THEN busIds
           ELSE IF t = "coaster" /\ n.c > coasterCount THEN busIds
           ELSE IF dialog = "AddEdit" /\ t = "unknown" THEN busIds
           ELSE next

\* MultiSelectBuses.toggle(val): onChange(the selection with val flipped)
ToggleBus(id) ==
  /\ dialog /= "none"
  /\ busIds' = setBusIdsLimited(IF id \in busIds THEN busIds \ {id}
                                 ELSE busIds \cup {id})
  /\ UNCHANGED <<tableVars, pageVars, dialog, editing, inputVars, quoteVars>>

\* the footer button of MultiSelectBuses: onChange([])
ClearBuses ==
  /\ dialog /= "none"
  /\ busIds /= {}
  /\ busIds' = setBusIdsLimited({})
  /\ UNCHANGED <<tableVars, pageVars, dialog, editing, inputVars, quoteVars>>

\* the reservations a page may hand to AddEdit as editing
Editings ==
  {Null,
   [t |-> "reservation", busIds |-> {}, event |-> "wedding",
    distanceKm |-> 10, priceTotal |-> 0],
   [t |-> "reservation", busIds |-> {"h1", "c1"}, event |-> "none",
    distanceKm |-> 10, priceTotal |-> 31]}

\* AddEdit's effect on [editing, open, busTypeIndex]: the form, the bus
\* ids, the distance and the event are taken from editing, the counts are
\* raised to the buses editing holds; the quoting effect runs if that
\* changed one of its deps
Hydrate(ed) ==
  /\ dialog = "AddEdit"
  /\ quoteReqSeq < MaxQuoteSeq
  /\ editing' = ed
  /\ LET held == IF ed = Null THEN {} ELSE ed.busIds
         n == countByType(held)
         max(a, b) == IF a >= b THEN a ELSE b
         i == InputsOf(IF ed = Null THEN "none" ELSE ed.event,
                       IF ed = Null THEN 0 ELSE ed.distanceKm,
                       IF held = {} THEN hiaceCount
                       ELSE max(hiaceCount, n.h),
                       IF held = {} THEN coasterCount
                       ELSE max(coasterCount, n.c))
         price == IF ed = Null THEN 0 ELSE ed.priceTotal
     IN  /\ busIds' = held
         /\ eventType' = i.eventType
         /\ distanceKm' = i.distanceKm
         /\ hiaceCount' = i.hiaceCount
         /\ coasterCount' = i.coasterCount
         /\ IF i /= Inputs THEN RunQuoteEffect(i, price)
            ELSE /\ priceTotal' = price
                 /\ UNCHANGED <<quoteReqSeq, quoteTimers, inFlight, quote,
                                quoteCurrency, quoting>>
  /\ UNCHANGED <<tableVars, pageVars, dialog>>

\* the state after the first render of a table mounted with these props
\* and without the loading flag; the effect on [searchInput] has set its
\* first timer
TableState(l, r, d, rid, del, srch, flt, grp, sizes, ext) ==
  /\ rev = r
  /\ externalData = d
  /\ getRowIdProp = rid
  /\ onDeleteProp = del
  /\ searchable = srch
  /\ filters = flt
  /\ groupBy = grp
  /\ pageSizeOptions = sizes
  /\ extProps = ext
  /\ loading = l
  /\ data = d
  /\ openDelete = FALSE
  /\ rowSelection = {}
  /\ pagination = [pageIndex |-> 0, pageSize |-> InitialPageSize]
  /\ searchInput = <<>>
  /\ search = <<>>
  /\ timers = {<<>>}
  /\ filterSelections = InitialFilterSelections(flt)
  /\ groupId = ""
  /\ deleteCalls = [n |-> 0, last |-> <<>>]
  /\ pageCalls = <<>>
  /\ sorting = <<>>
  /\ headerClicks = 0

TableMounted(r, d, rid, del, srch, flt, grp, sizes, ext) ==
  TableState(FALSE, r, d, rid, del, srch, flt, grp, sizes, ext)

\* no reservation dialog is mounted
NoDialog ==
  /\ dialog = "none"
  /\ editing = Null
  /\ eventType = "none"
  /\ distanceKm = 0
  /\ hiaceCount = 0
  /\ coasterCount = 0
  /\ busIds = {}
  /\ quoteReqSeq = 0
  /\ quoteTimers = {}
  /\ inFlight = {}
  /\ quote = Null
  /\ priceTotal = 0
  /\ quoteCurrency = "FCFA"
  /\ quoting = FALSE

\* the page around the table is not modelled
NoPage ==
  /\ pageKind = "none"
  /\ statusFilter = ""
  /\ listInFlight = {}
  /\ serverIds = {}
  /\ bulk = Null
  /\ single = Null

\* a table mounted on a page whose reservation dialog is not
Mounted(r, d, rid, del, srch, flt, grp, sizes, ext) ==
  TableMounted(r, d, rid, del, srch, flt, grp, sizes, ext)
    /\ NoDialog /\ NoPage

PlainFilters == <<RoleFilter(Str(<<>>)), TeamFilter>>

\* the first and the last MaxRows catalogue rows, and no rows
SearchData ==
  {<<>>, SubSeq(CatalogueSeq, 1, MaxRows),
   SubSeq(CatalogueSeq, Len(CatalogueSeq) - MaxRows + 1, Len(CatalogueSeq))}

\* the same and the first two catalogue rows
PagingData == SearchData \cup {SubSeq(CatalogueSeq, 1, 2)}

\* Spec: selection, paging and bulk delete over a table of catalogue rows
Init ==
  \E r \in {"A", "B"}, rid \in {"none", "id"}, del \in BOOLEAN :
    Mounted(r, SubSeq(CatalogueSeq, 1, MaxRows), rid, del, NameSearchable,
            PlainFilters, GroupProp("none"), SmallPageSizeOptions, NoExtProps)

Next ==
  \/ \E d \in PagingData : DataPropChange(d)
  \/ \E i \in 1..MaxRows : ToggleRow(i)
  \/ ToggleAllPage
  \/ \E n \in pageSizeOptions : SetPageSize(n)
  \/ NextPage
  \/ PreviousPage
  \/ FirstPage
  \/ LastPage
  \/ OpenDelete
  \/ CancelDelete
  \/ \E o \in CallbackOutcomes : ConfirmDelete(o)

Spec == Init /\ [][Next]_vars

\* SpecSearch: the search box over every short text
QueryAlphabet == {"a", "L", " "}
Queries == UNION {[1..n -> QueryAlphabet] : n \in 0..MaxQueryLen}

InitSearch ==
  \E r \in {"A", "B"}, srch \in {NoSearchable, NameSearchable} :
    Mounted(r, SubSeq(CatalogueSeq, 1, MaxRows), "id", FALSE, srch,
            PlainFilters, GroupProp("none"), DefaultPageSizeOptions, NoExtProps)

NextSearch ==
  \/ \E d \in SearchData : DataPropChange(d)
  \/ \E q \in Queries : SetSearchInput(q)
  \/ DebounceFire
  \/ ClearSearch

SpecSearch == InitSearch /\ [][NextSearch]_vars

\* SpecFilter: the filter Selects and the Group By Select
InitFilter ==
  \E r \in {"A", "B"}, flt \in FilterProps, srt \in {"none", "desc"} :
    Mounted(r, SubSeq(CatalogueSeq, 1, MaxRows), "id", FALSE, NameSearchable,
            flt, GroupProp(srt), DefaultPageSizeOptions, NoExtProps)

NextFilter ==
  \/ \E d \in DataChoices : DataPropChange(d)
  \/ DebounceFire
  \/ \E id \in FilterIds : \E v \in FilterById(id).options \cup {<<>>} :
       SetFilter(id, v)
  \/ ClearAllFilters
  \/ ResetSearchAndFilters
  \/ \E g \in {"", "role", "team"} : SetGroup(g)

SpecFilter == InitFilter /\ [][NextFilter]_vars

\* SpecExternal: the table as the Orders page mounts it, with pagination,
\* onPaginationChange and rowCount, over every server total
OrdersProps(total) ==
  [supplied |-> TRUE,
   pagination |-> [pageIndex |-> 0, pageSize |-> OrdersPageSize],
   rowCount |-> total]

InitExternal ==
  \E total \in 0..MaxServerRows :
    Mounted("A", ServerPage(total, 1, OrdersPageSize), "id", FALSE,
            NoSearchable, <<>>, <<>>, DefaultPageSizeOptions, OrdersProps(total))

NextExternal ==
  \/ DebounceFire
  \/ \E n \in pageSizeOptions : SetPageSize(n)
  \/ NextPage
  \/ PreviousPage
  \/ FirstPage
  \/ LastPage

SpecExternal == InitExternal /\ [][NextExternal]_vars

\* SpecPipeline: the search box, the filter Selects, the clear and reset
\* buttons and the loading flag together
PipelineQueries == {<<>>, <<" ">>, <<"c">>, <<"L", " ", "a">>}

InitPipeline ==
  \E r \in {"A", "B"}, flt \in FilterProps :
    Mounted(r, SubSeq(CatalogueSeq, 1, MaxRows), "id", FALSE, NameSearchable,
            flt, GroupProp("none"), DefaultPageSizeOptions, NoExtProps)

NextPipeline ==
  \/ \E d \in SearchData : DataPropChange(d)
  \/ \E l \in BOOLEAN : LoadingChange(l)
  \/ \E q \in PipelineQueries : SetSearchInput(q)
  \/ DebounceFire
  \/ ClearSearch
  \/ \E id \in FilterIds : \E v \in FilterById(id).options \cup {<<>>} :
       SetFilter(id, v)
  \/ ClearAllFilters
  \/ ResetSearchAndFilters

SpecPipeline == InitPipeline /\ [][NextPipeline]_vars

\* SpecNarrow: search and filter changes from every page of a paged table,
\* and clicks on its column headers
NarrowQueries == {<<>>, <<"c">>}

InitNarrow ==
  \E r \in {"A", "B"} :
    Mounted(r, SubSeq(CatalogueSeq, 1, MaxRows), "id", FALSE, NameSearchable,
            PlainFilters, GroupProp("none"), SmallPageSizeOptions, NoExtProps)

NextNarrow ==
  \/ \E d \in SearchData : DataPropChange(d)
  \/ \E q \in NarrowQueries : SetSearchInput(q)
  \/ DebounceFire
  \/ ClearSearch
  \/ \E id \in FilterIds : \E v \in FilterById(id).options \cup {<<>>} :
       SetFilter(id, v)
  \/ ClearAllFilters
  \/ ResetSearchAndFilters
  \/ \E n \in pageSizeOptions : SetPageSize(n)
  \/ NextPage
  \/ PreviousPage
  \/ FirstPage
  \/ LastPage
  \/ \E col \in SortableColumns : ClickHeader(col)

SpecNarrow == InitNarrow /\ [][NextNarrow]_vars

\* SpecGrouped: grouping over pages, with every kind of getRowId
InitGrouped ==
  \E r \in {"A", "B"}, rid \in {"none", "id", "index"} :
    Mounted(r, SubSeq(CatalogueSeq, 1, MaxRows), rid, FALSE, NameSearchable,
            PlainFilters, GroupProp("none"), SmallPageSizeOptions, NoExtProps)

NextGrouped ==
  \/ \E d \in PagingData : DataPropChange(d)
  \/ \E id \in FilterIds : \E v \in FilterById(id).options \cup {<<>>} :
       SetFilter(id, v)
  \/ \E g \in {"", "role", "team"} : SetGroup(g)
  \/ \E n \in pageSizeOptions : SetPageSize(n)
  \/ NextPage
  \/ PreviousPage

SpecGrouped == InitGrouped /\ [][NextGrouped]_vars

\* SpecSelect: selection and bulk delete while the search, the role
\* filter and the data prop change
InitSelect ==
  \E r \in {"A", "B"}, rid \in {"none", "id"} :
    Mounted(r, SubSeq(CatalogueSeq, 1, MaxRows), rid, TRUE, NameSearchable,
            <<RoleFilter(Str(<<>>))>>, <<>>, DefaultPageSizeOptions,
            NoExtProps)

NextSelect ==
  \/ \E d \in SearchData : DataPropChange(d)
  \/ \E q \in NarrowQueries : SetSearchInput(q)
  \/ DebounceFire
  \/ \E id \in FilterIds : \E v \in FilterById(id).options \cup {<<>>} :
       SetFilter(id, v)
  \/ \E i \in 1..MaxRows : ToggleRow(i)
  \/ OpenDelete
  \/ CancelDelete
  \/ \E o \in CallbackOutcomes : ConfirmDelete(o)

SpecSelect == InitSelect /\ [][NextSelect]_vars

\* SpecOrders: the Orders page and its table from the mount on: loading,
\* no rows yet, the first list request in flight.  The server holds the
\* same orders throughout and answers every request
InitOrders ==
  /\ TableState(TRUE, "A", <<>>, "id", FALSE, NoSearchable, <<>>, <<>>,
                DefaultPageSizeOptions, OrdersProps(0))
  /\ NoDialog
  /\ pageKind = "Orders"
  /\ statusFilter = ""
  /\ listInFlight = {ListParams("", extProps.pagination)}
  /\ serverIds = {}
  /\ bulk = Null
  /\ single = Null

NextOrders ==
  \/ \E s \in OrderStatuses : StatusClick(s)
  \/ Refresh
  \/ \E r \in listInFlight : ListResponse(r)
  \/ \E n \in pageSizeOptions : SetPageSize(n)

SpecOrders == InitOrders /\ [][NextOrders]_vars

\* SpecPeople: the People page or the Reservations page with its table,
\* loaded with the rows the server holds
InitPeople ==
  /\ TableState(FALSE, "A", SubSeq(CatalogueSeq, 1, MaxRows), "id", TRUE,
                NoSearchable, <<>>, <<>>, DefaultPageSizeOptions, NoExtProps)
  /\ NoDialog
  /\ pageKind \in {"People", "Reservations"}
  /\ statusFilter = ""
  /\ listInFlight = {}
  /\ serverIds = IdsOf(externalData)
  /\ bulk = Null
  /\ single = Null

NextPeople ==
  \/ \E i \in 1..MaxRows : ToggleRow(i)
  \/ OpenDelete
  \/ CancelDelete
  \/ BulkDelete
  \/ \E id \in serverIds, ok \in BOOLEAN : RemoveResponse(id, ok)
  \/ ReloadResponse
  \/ \E id \in serverIds : SingleDelete(id)
  \/ \E ok \in BOOLEAN : SingleResponse(ok)

SpecPeople == InitPeople /\ [][NextPeople]_vars

\* SpecDialog: a reservation dialog beside the reservations table. AddEdit
\* mounts without a reservation to edit; Order mounts with the event and
\* the fleet of its order and no route yet. The quoting effect has run once
\* and found nothing to quote
InitDialog ==
  /\ TableMounted("A", <<>>, "id", FALSE, NoSearchable, <<>>,
                  GroupProp("none"), DefaultPageSizeOptions, NoExtProps)
  /\ NoPage
  /\ dialog \in {"AddEdit", "Order"}
  /\ editing = Null
  /\ eventType \in IF dialog = "Order" THEN EventTypes ELSE {"none"}
  /\ distanceKm = 0
  /\ hiaceCount \in IF dialog = "Order" THEN Counts ELSE {0}
  /\ coasterCount \in IF dialog = "Order" THEN Counts ELSE {0}
  /\ busIds = {}
  /\ quoteReqSeq = 1
  /\ quoteTimers = IF dialog = "AddEdit" /\ Quotable(Inputs)
                   THEN {[seq |-> 1, request |-> Inputs]} ELSE {}
  /\ inFlight = {}
  /\ quote = Null
  /\ priceTotal = 0
  /\ quoteCurrency = "FCFA"
  /\ quoting = FALSE

NextDialog ==
  \/ \E ev \in EventTypes : SetEventType(ev)
  \/ \E km \in Distances : SetRouteKm(km)
  \/ \E n \in Counts : SetHiaceCount(n)
  \/ \E n \in Counts : SetCoasterCount(n)
  \/ QuoteTimerFire
  \/ \E r \in inFlight : \E outcome \in Currencies \cup {"error"} :
       QuoteResponse(r, outcome)
  \/ \E id \in Buses : ToggleBus(id)
  \/ ClearBuses
  \/ \E ed \in Editings : Hydrate(ed)

SpecDialog == InitDialog /\ [][NextDialog]_vars

(***************************************************************************)
(* Properties of the search/filter pipeline.                               *)
(***************************************************************************)
\* r is one of the rows of filteredRows
InFiltered(r) == \E j \in 1..Len(filteredRows) : filteredRows[j] = r

\* no filter constrains the rows: every filter's selected value is empty
NoFilterActive == \A i \in 1..Len(filters) : Selected(filters[i]) = <<>>

\* some configured searchable field of r, resolved along its path,
\* stringified and case-folded, contains q case-folded
SomeFieldContains(r, q) ==
  \E k \in 1..Len(searchable.fields) :
    Includes(ToLowerCase(StringOf(FieldValue(r, searchable.fields[k]))),
             ToLowerCase(q))

\* C1 as amended: with searchable configured and no filter active, a row of
\* the data is in the filtered rows iff the applied query, its surrounding
\* white space trimmed, is empty or is contained, case-folded, in some
\* configured searchable field of the row
C1_SearchTrimmed ==
  (searchable.configured /\ NoFilterActive) =>
    \A i \in 1..Len(Rows) :
      InFiltered(Rows[i]) <=>
        (Trim(search) = <<>> \/ SomeFieldContains(Rows[i], Trim(search)))

\* C1 witness: an applied query with surrounding white space keeps some rows
\* and drops others
C1_Witness ==
  /\ searchable.configured /\ NoFilterActive
  /\ search /= Trim(search) /\ Trim(search) /= <<>>
  /\ Len(filteredRows) > 0 /\ Len(filteredRows) < Len(Rows)

\* C1 as stated: the same with the applied query taken as typed
C1_SearchAsTyped ==
  (searchable.configured /\ NoFilterActive) =>
    \A i \in 1..Len(Rows) :
      InFiltered(Rows[i]) <=>
        (search = <<>> \/ SomeFieldContains(Rows[i], search))

\* the filter's accessor gives v for r whenever the filter's current
\* selection is a non-empty value v
MeetsSelections(r) ==
  \A i \in 1..Len(filters) :
    ShownSelection(filters[i].id) /= <<>> =>
      FilterAccessor(filters[i], r) = ShownSelection(filters[i].id)

\* C2: with an empty search query, a row of the data is in the filtered
\* rows iff every filter whose current selection is a non-empty value v has
\* accessor(r) = v; a filter without a non-empty selection imposes nothing
C2_FilterAnd ==
  search = <<>> =>
    \A i \in 1..Len(Rows) : InFiltered(Rows[i]) <=> MeetsSelections(Rows[i])

(***************************************************************************)
(* Properties of the external pagination mode.                             *)
(***************************************************************************)
\* C3: when pagination, onPaginationChange and rowCount are supplied, the
\* table displays every row of the data prop and hides none of them behind
\* a page size of its own
C3_NoReslice ==
  extProps.supplied => Originals(RenderedRows) = externalData

\* the page count and the next-page step the external mode asks for
C4_Step ==
  extProps.supplied =>
    /\ PageCount = Ceil(extProps.rowCount, extProps.pagination.pageSize)
    /\ NextPage =>
         /\ pageCalls' =
              Append(pageCalls,
                     [pageIndex |-> extProps.pagination.pageIndex + 1,
                      pageSize |-> extProps.pagination.pageSize])
         /\ pagination' = pagination

\* C4: when pagination, onPaginationChange and rowCount are supplied, the
\* page count is ceil(rowCount / pagination.pageSize), and a next-page step
\* calls onPaginationChange with the next page index and the same page size
\* and leaves the component's own pagination state alone
C4_ExternalPaging == [][C4_Step]_vars

(***************************************************************************)
(* Properties of the bulk delete.                                          *)
(***************************************************************************)
\* a step in which the user confirms the dialog, whatever the callback does
Confirms == \E o \in CallbackOutcomes : ConfirmDelete(o)

\* C5: after the user confirms the bulk-delete dialog the selection is
\* empty, whether the callback returns, throws or returns a promise that
\* later rejects
C5_DeleteClearsSelection == [][Confirms => rowSelection' = {}]_vars

\* the callback is invoked only by a confirm taken while the dialog is open
C6_OnlyByConfirm == deleteCalls' /= deleteCalls => (openDelete /\ Confirms)

\* the dialog opens only while a row is selected and the callback is supplied
C6_OpensGuarded ==
  (~openDelete /\ openDelete') =>
    (onDeleteProp /\ rowSelection /= {} /\ Len(FilteredSelectedRows) > 0)

\* a confirm invokes the callback once, with the rows selected at that
\* moment, and the selection is empty afterwards
C6_ConfirmCallsThenClears ==
  Confirms =>
    /\ deleteCalls'.n = deleteCalls.n + 1
    /\ deleteCalls'.last = Originals(FilteredSelectedRows)
    /\ rowSelection' = {}

\* a cancel invokes nothing and leaves the selection as it is
C6_CancelKeeps ==
  CancelDelete => (deleteCalls' = deleteCalls /\ rowSelection' = rowSelection)

\* C6: onDeleteSelected is invoked only by a confirm taken while the dialog
\* is open; the dialog opens only while at least one row is selected and
\* the callback is supplied; each confirm invokes the callback exactly once
\* with the selected rows and then clears the selection; a cancel invokes
\* nothing and leaves the selection unchanged
C6_ConfirmBeforeDestroy ==
  [][/\ C6_OnlyByConfirm
     /\ C6_OpensGuarded
     /\ C6_ConfirmCallsThenClears
     /\ C6_CancelKeeps]_vars

(***************************************************************************)
(* Properties of the grouping engine.                                      *)
(***************************************************************************)
\* the places <<i, j>> of the buckets that hold row r
PlacesOf(r) ==
  LET g == grouped
  IN  {p \in UNION {{<<i, j>> : j \in 1..Len(g[i].rows)} : i \in 1..Len(g)} :
         g[p[1]].rows[p[2]] = r}

\* the labels a row may be filed under: its accessor result, or for an
\* empty or missing result the sentinel or the empty label
LabelsFor(r) ==
  LET k == Member(r, currentGroup.field)
  IN  IF Truthy(k) THEN {k.s} ELSE {sDash, <<>>}

OnPage(n) ==
  /\ n > pagination.pageSize * pagination.pageIndex
  /\ n <= pagination.pageSize * (pagination.pageIndex + 1)

\* the ids whose selected state differs between the two states of a step
Flipped == (rowSelection \ rowSelection') \cup (rowSelection' \ rowSelection)

\* C8: a click on the header checkbox changes the selected state only of
\* rows on the displayed page; every row on another page, and every
\* selected id that belongs to no displayed row, keeps its state
C8_SelectAllScope ==
  [][ToggleAllPage =>
       /\ \A n \in 1..Len(CoreRows) :
            ~OnPage(n) => (CoreRows[n].id \in rowSelection'
                             <=> CoreRows[n].id \in rowSelection)
       /\ Flipped \subseteq {RenderedRows[i].id : i \in 1..Len(RenderedRows)}]_vars

\* C8 witness: of several pages the displayed one is fully selected while
\* a row of another page is not selected
C8_Witness ==
  /\ PageCount >= 2
  /\ getIsAllPageRowsSelected
  /\ \E n \in 1..Len(CoreRows) : ~OnPage(n) /\ ~IsSelected(CoreRows[n])

\* the rows of pages 0..k-1 of the table, one page after the other
RECURSIVE PagesUpTo(_)
PagesUpTo(k) ==
  IF k = 0 THEN <<>>
  ELSE PagesUpTo(k - 1) \o PageSlice(CoreRows, k - 1, pagination.pageSize)

\* k is Math.ceil(n / d): the least number of pages of d rows that hold n
IsCeil(k, n, d) == k * d >= n /\ (k - 1) * d < n

C10_BucketOrder ==
  HasCurrentGroup =>
    LET g == grouped
    IN  \A i, j \in 1..Len(g) :
          i < j => GroupCompare(g[i].label, g[j].label) <= 0

(***************************************************************************)
(* Further properties of the search/filter pipeline.                       *)
(***************************************************************************)
\* filter f, taken alone, excludes row r
FilterExcludes(f, r) ==
  Selected(f) /= <<>> /\ FilterAccessor(f, r) /= Selected(f)

\* C11: in every reachable state a filter whose selection is empty or
\* unset (after the 'all' option, the removal of its chip, or a clear or
\* reset of all filters) excludes no row, whatever its defaultValue is
C11_NoSelectionNoOp ==
  \A i \in 1..Len(filters) :
    ShownSelection(filters[i].id) = <<>> =>
      \A n \in 1..Len(Rows) : ~FilterExcludes(filters[i], Rows[n])

\* the rows of a sequence as a set
RowSet(rows) == {rows[i] : i \in 1..Len(rows)}

\* the search applied to the data, and the filter constraints applied to it
Searched == SelectSeq(Rows, PassSearch)
Filtered == SelectSeq(Rows, PassFilters)

\* C12: applying the filter constraints to the search result gives the
\* same rows as applying the search to the filter result, and both are the
\* pipeline's filtered rows
C12_FiltersCommuteWithSearch ==
  /\ SelectSeq(Searched, PassFilters) = SelectSeq(Filtered, PassSearch)
  /\ RowSet(SelectSeq(Searched, PassFilters)) = RowSet(filteredRows)
  /\ RowSet(SelectSeq(Filtered, PassSearch)) = RowSet(filteredRows)
  /\ RowSet(filteredRows) = RowSet(Searched) \cap RowSet(Filtered)

\* C12 witness: a query and a filter selection are both in effect, and each
\* removes a row the other keeps
C12_Witness ==
  /\ Query /= <<>> /\ ~NoFilterActive
  /\ Len(filteredRows) > 0
  /\ Len(filteredRows) < Len(Searched)
  /\ Len(filteredRows) < Len(Filtered)

(***************************************************************************)
(* Further properties of the bulk delete.                                  *)
(***************************************************************************)
\* C13: a confirmed bulk delete leaves the rows the component holds and the
\* rows it displays as they are, and a row leaves the component's rows
\* only in a step that hands the component a data prop without that row
C13_NoOptimisticRemoval ==
  [][/\ Confirms =>
          /\ Rows' = Rows
          /\ filteredRows' = filteredRows
          /\ RenderedRows' = RenderedRows
     /\ ~(RowSet(Rows) \subseteq RowSet(Rows')) =>
          /\ externalData' /= externalData
          /\ RowSet(Rows') = RowSet(externalData')]_vars

\* C13 witness: the callback has been handed rows, and all of them are
\* still rows of the table, with the selection cleared
C13_Witness ==
  /\ deleteCalls.n > 0 /\ Len(deleteCalls.last) > 0
  /\ rowSelection = {}
  /\ RowSet(deleteCalls.last) \subseteq RowSet(Originals(CoreRows))

(***************************************************************************)
(* Further properties of paging.                                           *)
(***************************************************************************)
\* C14: whenever the applied search text or a filter selection changes,
\* the page index is 0 afterwards and the page size is what it was, from
\* any previous page and in both revisions
C14_PageResetOnNarrowing ==
  [][(search' /= search \/ filterSelections' /= filterSelections) =>
       /\ pagination'.pageIndex = 0
       /\ pagination'.pageSize = pagination.pageSize]_vars

\* C14 witness: a table paged one row a page is on its first page with a
\* query applied that leaves several pages
C14_Witness ==
  /\ pagination.pageSize = 1 /\ pagination.pageIndex = 0
  /\ Query /= <<>> /\ search = searchInput
  /\ PageCount >= 2

\* C16: after the user selects another page size, from any page, the page
\* index is 0
C16_PageSizeResets ==
  [][(\E n \in pageSizeOptions : SetPageSize(n)) =>
       pagination'.pageIndex = 0]_vars

(***************************************************************************)
(* The search debounce.                                                    *)
(***************************************************************************)
\* C15: at most one debounce timer is pending at any time and it carries
\* the current input text, so that a superseded text is never applied; the
\* applied query changes only to the input text when a timer fires, or to
\* the empty string when the search is cleared or reset
C15_DebounceCancelable ==
  /\ [](Cardinality(timers) <= 1 /\ timers \subseteq {searchInput})
  /\ [][search' /= search =>
          \/ /\ search' = searchInput /\ searchInput' = searchInput
             /\ search' \in timers /\ timers' = timers \ {search'}
          \/ /\ search' = <<>> /\ searchInput' = <<>>
             /\ (ClearSearch \/ ResetSearchAndFilters)]_vars

\* C15 witness: a text has been applied, the user has typed another one
\* since, and the one pending timer carries the new text
C15_Witness ==
  /\ search /= <<>> /\ searchInput /= <<>> /\ searchInput /= search
  /\ timers = {searchInput}

(***************************************************************************)
(* The empty state.                                                        *)
(***************************************************************************)
\* a search query or a filter constrains the rows the pipeline keeps
ConstraintInEffect == Query /= <<>> \/ ~NoFilterActive

\* C17: whenever no row is displayed the empty state is the loading
\* variant if the table is loading; otherwise, if a search query or a
\* filter constraint is in effect on the rows, it offers the reset action,
\* and activating the reset leaves the search input, the applied query
\* and every filter selection empty
C17_EmptyStateVariants ==
  /\ [](EmptyStateShown =>
          /\ loading => EmptyStateVariant = "loading"
          /\ (~loading /\ ConstraintInEffect) => ResetOffered)
  /\ [][ResetSearchAndFilters =>
          /\ searchInput' = <<>> /\ search' = <<>>
          /\ \A i \in 1..Len(filters) :
               (ShownSelection(filters[i].id))' = <<>>]_vars

(***************************************************************************)
(* Sorting.                                                                *)
(***************************************************************************)
\* the sort state one click on the header of col leads to, from s: none,
\* or another column, to ascending, ascending to descending, descending
\* to none
SortCycle(s, col) ==
  IF Len(s) = 0 \/ s[1].id /= col THEN <<[id |-> col, desc |-> FALSE]>>
  ELSE IF ~s[1].desc THEN <<[id |-> col, desc |-> TRUE]>>
  ELSE <<>>

\* C18: the sort state holds at most one column, and every click on the
\* header of a sortable column moves that column's sort one step along
\* ascending, descending, none
C18_SortToggles ==
  /\ [](Len(sorting) <= 1)
  /\ [][\A col \in SortableColumns :
          ClickHeader(col) => sorting' = SortCycle(sorting, col)]_vars

(***************************************************************************)
(* The reservation dialogs.                                                *)
(***************************************************************************)
\* the step is the arrival of a response that changes the quote, the
\* price or the currency
ResponseApplied ==
  /\ inFlight' /= inFlight /\ inFlight' \subseteq inFlight
  /\ <<quote, priceTotal, quoteCurrency>>' /=
       <<quote, priceTotal, quoteCurrency>>

\* C19: a /quote response changes the quote, the price and the currency
\* only if no quote-relevant input has changed since its request's timer
\* was scheduled, and in every reachable state the stored quote is null or
\* the response to the latest inputs
C19_StaleQuotesDiscarded ==
  /\ [][ResponseApplied =>
          \E r \in inFlight \ inFlight' :
            r.seq = quoteReqSeq /\ r.request = Inputs]_vars
  /\ [](quote = Null \/ quote.request = Inputs)

\* the buses in ids are within the caps the counts set
WithinCaps(ids) ==
  /\ countByType(ids).h <= hiaceCount
  /\ countByType(ids).c <= coasterCount

\* C20: in every reachable state of a reservation dialog the assigned
\* hiace buses are at most hiaceCount and the assigned coaster buses at
\* most coasterCount, and a selection change that would exceed a cap is
\* rejected and leaves the assigned buses as they are
C20_BusCaps ==
  dialog /= "none" =>
    /\ WithinCaps(busIds)
    /\ \A id \in Buses \ busIds :
         ~WithinCaps(busIds \cup {id}) =>
           setBusIdsLimited(busIds \cup {id}) = busIds

(***************************************************************************)
(* Faceted counts.                                                         *)
(***************************************************************************)
\* the rows that pass the search as the pipeline evaluates it and the
\* selection of every filter but f, and whose f.accessor is v
FacetRows(f, v) ==
  {i \in 1..Len(Rows) :
     /\ PassSearch(Rows[i])
     /\ \A j \in 1..Len(filters) :
          \/ filters[j].id = f.id
          \/ Selected(filters[j]) = <<>>
          \/ FilterAccessor(filters[j], Rows[i]) = Selected(filters[j])
     /\ FilterAccessor(f, Rows[i]) = v}

\* C21: in rev A, for every filter f and option v, the count shown beside
\* v is the number of rows that pass the search of the pipeline and every
\* other filter's selection and whose f.accessor is v; when f's selection
\* is v that is the number of filtered rows
C21_FacetedCounts ==
  rev = "A" =>
    \A i \in 1..Len(filters) : \A v \in filters[i].options :
      /\ ShownCount(filters[i], v) = Cardinality(FacetRows(filters[i], v))
      /\ Selected(filters[i]) = v =>
           ShownCount(filters[i], v) = Len(filteredRows)

(***************************************************************************)
(* The pages around the table.                                             *)
(***************************************************************************)
\* C22: on the Orders page, once no list request is in flight, the rows
\* and the total shown are those of the answer to the request issued
\* last, the one for the current statusFilter and pagination
C22_LatestRequestWins ==
  (pageKind = "Orders" /\ listInFlight = {}) =>
    /\ externalData =
         ServerPage(ServerTotal(statusFilter),
                    extProps.pagination.pageIndex + 1,
                    extProps.pagination.pageSize)
    /\ extProps.rowCount = ServerTotal(statusFilter)

\* C23: once a bulk delete and every request of the page have ended, the
\* row list holds no selected row that the server has deleted and holds
\* every selected row whose deletion failed and that the server still has
C23_BulkDeleteConsistent ==
  (bulk /= Null /\ BulkSettled /\ single = Null) =>
    \A id \in bulk.selected :
      /\ id \notin serverIds => id \notin IdsOf(externalData)
      /\ (id \in bulk.failed /\ id \in serverIds) =>
           id \in IdsOf(externalData)

(***************************************************************************)
(* The quoting flag of the reservation dialogs.                            *)
(***************************************************************************)
\* C24: whenever no /quote request is in flight and no quote timer is
\* pending, quoting is false
C24_QuotingNotStuck ==
  (dialog /= "none" /\ inFlight = {} /\ quoteTimers = {}) => ~quoting

(***************************************************************************)
(* The grouped body.                                                       *)
(***************************************************************************)
\* the table rows rendered under the header of each bucket
RenderedUnder == [i \in 1..Len(grouped) |-> BucketRendered(grouped[i].rows, 0)]

\* the places <<bucket, position>> of the grouped body
RenderedPlaces ==
  LET under == RenderedUnder
  IN  UNION {{<<i, j>> : j \in 1..Len(under[i])} : i \in 1..Len(under)}

\* C25: with a group descriptor active, every row of the current page is
\* rendered exactly once, under the header of the bucket that holds it,
\* and no row outside the current page is rendered
C25_GroupedRendering ==
  (HasCurrentGroup /\ Len(PageRows) > 0) =>
    LET under == RenderedUnder
        page == PageRows
        places == RenderedPlaces
    IN  /\ \A n \in 1..Len(page) :
             Cardinality({p \in places : under[p[1]][p[2]] = page[n]}) = 1
        /\ \A p \in places :
             /\ \E n \in 1..Len(page) : page[n] = under[p[1]][p[2]]
             /\ \E k \in 1..Len(grouped[p[1]].rows) :
                  grouped[p[1]].rows[k] = under[p[1]][p[2]].original

(***************************************************************************)
(* Selection, the confirmation dialog and the rows handed to the caller.   *)
(***************************************************************************)
\* the rows of the last onDeleteSelected call
LastDeleted == {deleteCalls.last[i] : i \in 1..Len(deleteCalls.last)}

\* C26: every row whose id a confirmed delete removes from the selection
\* is a row of the list passed to onDeleteSelected
C26_NoSilentDeselect ==
  [][Confirms =>
       \A id \in rowSelection \ rowSelection' :
         \E i \in 1..Len(CoreRows) :
           CoreRows[i].id = id /\ CoreRows[i].original \in LastDeleted']_vars

\* C27: whenever the confirmation dialog is open, at least one selected
\* row is in the filtered row set
C27_DialogHasRows == openDelete => Len(FilteredSelectedRows) > 0

\* the rows displayed as selected
ShownSelected ==
  {CoreRows[i].original : i \in {j \in 1..Len(CoreRows) : IsSelected(CoreRows[j])}}

\* a step that changes the search or a filter and nothing else of the rows
SearchOrFilterChange ==
  /\ search' /= search \/ filterSelections' /= filterSelections
  /\ data' = data /\ externalData' = externalData
  /\ rowSelection' = rowSelection

\* C29: with no getRowId, after a search or filter change every row shown
\* before and after is selected afterwards exactly if it was before
C29_SelectionFollowsRow ==
  [][(getRowIdProp = "none" /\ SearchOrFilterChange) =>
       \A r \in RowSet(filteredRows) \cap RowSet(filteredRows') :
         r \in ShownSelected <=> r \in ShownSelected']_vars

(***************************************************************************)
(* The page displayed.                                                     *)
(***************************************************************************)
\* Math.max(1, n)
AtLeastOne(n) == IF n < 1 THEN 1 ELSE n

\* C28: in internal mode the current page always exists:
\* pageIndex < max(1, pageCount)
C28_PageExists ==
  ~extProps.supplied => pagination.pageIndex < AtLeastOne(PageCount)

\* C28 witness: with a search in effect the last of several pages is
\* displayed
C28_Witness ==
  /\ ~extProps.supplied
  /\ Query /= <<>>
  /\ PageCount >= 2
  /\ pagination.pageIndex = PageCount - 1

=============================================================================
